---- MODULE Spec2Model ----
(***************************************************************************)
(* Persistence layer of the farmers' marketplace: the Alembic migration    *)
(* 4d16c11a51fd (upgrade / downgrade), the rows of the tables it creates   *)
(* with their uniqueness and foreign-key constraints and the ORM delete    *)
(* cascade, and the entity objects of models.py with their field           *)
(* validators and the write-only password property.                        *)
(*                                                                         *)
(* A nullable value is a set: NULL is {} and a present value v is {v}.     *)
(* A string whose characters matter is a sequence of one-character         *)
(* strings; a string that is only compared for equality is a TLA+ string.  *)
(***************************************************************************)
EXTENDS Integers, Sequences, FiniteSets, TLC

\* ---------------------------------------------------------------- bounds
MaxUsers == 2
MaxFarmers == 2
MaxChildRows == 3
MaxEmailLen == 2
MaxTextLen == 1
MaxInt == 6
MaxQty == 1
MaxPwLen == 1

\* ------------------------------------------------------------- nullables
NULL == {}
Some(v) == {v}
Val(o) == CHOOSE v \in o : TRUE

VARIABLES
    tables,     \* the tables that exist in the database
    rev,        \* alembic revision: "base" or "head"
    mpc,        \* number of statements of the running upgrade()/downgrade() done
    created,    \* tables in the order the last upgrade() created them
    dropped,    \* tables in the order the last downgrade() dropped them
    users,      \* rows of table user
    farmers,    \* rows of table farmer
    messages,   \* rows of table chat_message
    orders,     \* rows of table order
    reviews,    \* rows of table reviews
    lastS,      \* the last storage operation: its name, what it reports of its
                \* arguments and effect, and its result
    uEmail,     \* a User object's email
    uRole,      \* the same User's role
    uHash,      \* the same User's _password_hash
    rRating,    \* a Reviews object's rating
    order,      \* NULL, or the Order object a successful Order(...) returned
    pAmount,    \* a Payment object's payment_amount
    mText,      \* a ChatMessage object's message_text
    lastE,      \* the last call on an entity object: its name, argument, whether
                \* it raised, and what it returned
    build,      \* which bcrypt sits behind config.bcrypt
    written,    \* the plaintext of the last password write that succeeded
    writes      \* how many password writes succeeded: "none", "one" or "several"

storeVars == <<tables, rev, mpc, created, dropped, users, farmers, messages,
               orders, reviews, lastS>>

entityVars == <<uEmail, uRole, uHash, rRating, order, pAmount, mText, lastE,
                build, written, writes>>

vars == <<storeVars, entityVars>>

\* ------------------------------------------------------------- migration
\* upgrade(): the op.create_table calls, in program order.
UpgradeOrder ==
    <<"user", "chat_message", "farmer", "product", "order", "reviews",
      "association_order_product", "association_product_review", "payment">>

\* downgrade() with two statements exchanged: farmer is dropped while product,
\* which references it, still exists.
DowngradeOrder_swapped ==
    <<"payment", "association_product_review", "association_order_product",
      "reviews", "order", "farmer", "product", "chat_message", "user">>

\* downgrade(): the op.drop_table calls, in program order.
DowngradeOrder ==
    <<"payment", "association_product_review", "association_order_product",
      "reviews", "order", "product", "farmer", "chat_message", "user">>

\* The tables the sa.ForeignKeyConstraint lines of each create_table reference.
ForeignKeys(t) ==
    CASE t = "user" -> {}
      [] t = "chat_message" -> {"user"}
      [] t = "farmer" -> {"user"}
      [] t = "product" -> {"farmer"}
      [] t = "order" -> {"user", "product"}
      [] t = "reviews" -> {"user", "product"}
      [] t = "association_order_product" -> {"order", "product"}
      [] t = "association_product_review" -> {"product", "reviews"}
      [] t = "payment" -> {"order"}

Reverse(s) == [i \in 1..Len(s) |-> s[Len(s) + 1 - i]]

Idle == mpc = 0

\* One op.create_table of upgrade(); the last one leaves the revision at head.
UpgradeStep ==
    /\ rev = "base"
    /\ mpc < Len(UpgradeOrder)
    /\ LET t == UpgradeOrder[mpc + 1] IN
        /\ tables' = tables \cup {t}
        /\ created' = IF mpc = 0 THEN <<t>> ELSE Append(created, t)
        /\ dropped' = IF mpc = 0 THEN <<>> ELSE dropped
    /\ IF mpc + 1 = Len(UpgradeOrder)
          THEN rev' = "head" /\ mpc' = 0
          ELSE rev' = rev /\ mpc' = mpc + 1
    /\ lastS' = [op |-> "create_table", args |-> <<UpgradeOrder[mpc + 1]>>, result |-> "ok"]
    /\ UNCHANGED <<users, farmers, messages, orders, reviews>>
    /\ UNCHANGED entityVars

\* One op.drop_table of downgrade(); a dropped table loses its rows.
DowngradeStep ==
    /\ rev = "head"
    /\ mpc < Len(DowngradeOrder)
    /\ LET t == DowngradeOrder[mpc + 1] IN
        /\ tables' = tables \ {t}
        /\ dropped' = Append(dropped, t)
        /\ users' = IF t = "user" THEN {} ELSE users
        /\ farmers' = IF t = "farmer" THEN {} ELSE farmers
        /\ messages' = IF t = "chat_message" THEN {} ELSE messages
        /\ orders' = IF t = "order" THEN {} ELSE orders
        /\ reviews' = IF t = "reviews" THEN {} ELSE reviews
    /\ IF mpc + 1 = Len(DowngradeOrder)
          THEN rev' = "base" /\ mpc' = 0
          ELSE rev' = rev /\ mpc' = mpc + 1
    /\ lastS' = [op |-> "drop_table", args |-> <<DowngradeOrder[mpc + 1]>>, result |-> "ok"]
    /\ UNCHANGED created
    /\ UNCHANGED entityVars

\* ------------------------------------------------------------------ rows
Usernames == {"alice", "bob"}
Emails == {"a@x.com", "b@x.com"}
FarmNames == {"GreenAcres", "Hilltop"}
Opt(S) == {NULL} \cup {Some(v) : v \in S}

Ids(rows) == {r.id : r \in rows}
MaxId(rows) == IF rows = {} THEN 0 ELSE CHOOSE i \in Ids(rows) : \A j \in Ids(rows) : j <= i
\* Integer primary key assigned by the storage layer.
NewId(rows) == MaxId(rows) + 1

ChildRows == Cardinality(farmers) + Cardinality(messages) + Cardinality(orders)
             + Cardinality(reviews)

\* The user table without its UniqueConstraint('email').
UserConflict_noEmail(un, em) ==
    \E u \in users : un # NULL /\ u.username = un

\* sa.UniqueConstraint('email'), sa.UniqueConstraint('username'): a NULL never conflicts.
UserConflict(un, em) ==
    \E u \in users : \/ (un # NULL /\ u.username = un)
                     \/ (em # NULL /\ u.email = em)

\* sa.UniqueConstraint('farm_name'), sa.UniqueConstraint('user_id').
FarmerConflict(fn, uid) ==
    \E f \in farmers : \/ (fn # NULL /\ f.farm_name = fn)
                       \/ (uid # NULL /\ f.user_id = uid)

\* A foreign key value is NULL or the id of a stored User.
FkUserOk(uid) == uid = NULL \/ Val(uid) \in Ids(users)

CreateUser(un, em) ==
    /\ rev = "head" /\ Idle
    /\ NewId(users) <= MaxUsers
    /\ IF UserConflict(un, em)
          THEN /\ users' = users
               /\ lastS' = [op |-> "create_user", args |-> <<un, em>>,
                            result |-> "IntegrityError"]
          ELSE /\ users' = users \cup {[id |-> NewId(users), username |-> un, email |-> em]}
               /\ lastS' = [op |-> "create_user", args |-> <<un, em>>, result |-> "ok"]
    /\ UNCHANGED <<tables, rev, mpc, created, dropped, farmers, messages, orders, reviews>>
    /\ UNCHANGED entityVars

CreateFarmer(fn, uid) ==
    /\ rev = "head" /\ Idle
    /\ Cardinality(farmers) < MaxFarmers
    /\ ChildRows < MaxChildRows
    /\ IF FarmerConflict(fn, uid) \/ ~FkUserOk(uid)
          THEN /\ farmers' = farmers
               /\ lastS' = [op |-> "create_farmer", args |-> <<fn, uid>>,
                            result |-> "IntegrityError"]
          ELSE /\ farmers' = farmers \cup
                     {[id |-> NewId(farmers), farm_name |-> fn, user_id |-> uid]}
               /\ lastS' = [op |-> "create_farmer", args |-> <<fn, uid>>, result |-> "ok"]
    /\ UNCHANGED <<tables, rev, mpc, created, dropped, users, messages, orders, reviews>>
    /\ UNCHANGED entityVars

\* sender_id and receiver_id are nullable=False foreign keys to user.id.
CreateMessage(s, r) ==
    /\ rev = "head" /\ Idle
    /\ ChildRows < MaxChildRows
    /\ IF s = NULL \/ r = NULL \/ ~FkUserOk(s) \/ ~FkUserOk(r)
          THEN /\ messages' = messages
               /\ lastS' = [op |-> "create_message", args |-> <<>>,
                            result |-> "IntegrityError"]
          ELSE /\ messages' = messages \cup
                     {[id |-> NewId(messages), sender_id |-> Val(s), receiver_id |-> Val(r)]}
               /\ lastS' = [op |-> "create_message", args |-> <<>>, result |-> "ok"]
    /\ UNCHANGED <<tables, rev, mpc, created, dropped, users, farmers, orders, reviews>>
    /\ UNCHANGED entityVars

CreateOrderRow(cid) ==
    /\ rev = "head" /\ Idle
    /\ ChildRows < MaxChildRows
    /\ IF ~FkUserOk(cid)
          THEN /\ orders' = orders
               /\ lastS' = [op |-> "create_order", args |-> <<>>,
                            result |-> "IntegrityError"]
          ELSE /\ orders' = orders \cup {[id |-> NewId(orders), customer_id |-> cid]}
               /\ lastS' = [op |-> "create_order", args |-> <<>>, result |-> "ok"]
    /\ UNCHANGED <<tables, rev, mpc, created, dropped, users, farmers, messages, reviews>>
    /\ UNCHANGED entityVars

CreateReviewRow(cid) ==
    /\ rev = "head" /\ Idle
    /\ ChildRows < MaxChildRows
    /\ IF ~FkUserOk(cid)
          THEN /\ reviews' = reviews
               /\ lastS' = [op |-> "create_review", args |-> <<>>,
                            result |-> "IntegrityError"]
          ELSE /\ reviews' = reviews \cup {[id |-> NewId(reviews), customer_id |-> cid]}
               /\ lastS' = [op |-> "create_review", args |-> <<>>, result |-> "ok"]
    /\ UNCHANGED <<tables, rev, mpc, created, dropped, users, farmers, messages, orders>>
    /\ UNCHANGED entityVars

\* The cascade of sent_messages alone: received_messages without its cascade.
CascadeDeleted_sentOnly(uid) ==
    {m \in messages : m.sender_id = uid}

\* The rows a relationship with cascade="all, delete" removes with its User:
\* sent_messages (ChatMessage.sender_id) and received_messages (ChatMessage.receiver_id).
CascadeDeleted(uid) ==
    {m \in messages : m.sender_id = uid \/ m.receiver_id = uid}

\* A relationship without a delete cascade (farmer, orders, reviews) is
\* de-associated: the child row stays and its foreign key becomes NULL.
Referencing(rows, col, uid) == {r \in rows : r[col] = Some(uid)}

Nullified(rows, col, uid) ==
    {IF r[col] = Some(uid) THEN [r EXCEPT ![col] = NULL] ELSE r : r \in rows}

\* session.delete(user); commit.
DeleteUser(uid) ==
    /\ rev = "head" /\ Idle
    /\ uid \in Ids(users)
    /\ users' = {u \in users : u.id # uid}
    /\ messages' = messages \ CascadeDeleted(uid)
    /\ farmers' = Nullified(farmers, "user_id", uid)
    /\ orders' = Nullified(orders, "customer_id", uid)
    /\ reviews' = Nullified(reviews, "customer_id", uid)
    /\ lastS' = [op |-> "delete_user",
                 args |-> <<uid, Cardinality(CascadeDeleted(uid)),
                            Cardinality(Referencing(farmers, "user_id", uid))
                            + Cardinality(Referencing(orders, "customer_id", uid))
                            + Cardinality(Referencing(reviews, "customer_id", uid))>>,
                 result |-> "ok"]
    /\ UNCHANGED <<tables, rev, mpc, created, dropped>>
    /\ UNCHANGED entityVars

UserIdInputs == Opt(1..MaxUsers)

\* -------------------------------------------------------- entity objects
\* What a call does: it raises, or it returns a value (None is NULL).
Raise == [raised |-> TRUE, value |-> NULL]
Return(v) == [raised |-> FALSE, value |-> v]

Chars == {"a", "@"}
Strings(n) == UNION {[1..k -> Chars] : k \in 0..n}
\* c in s
Contains(s, c) == \E i \in 1..Len(s) : s[i] = c
\* not x, for x a str or None
Falsy(x) == x = NULL \/ Val(x) = <<>>

EmailInputs == Opt(Strings(MaxEmailLen))
TextInputs == Opt(Strings(MaxTextLen))
IntInputs == Opt((-1)..MaxInt)
QtyInputs == Opt((-1)..MaxQty)
RoleInputs == Opt({"Farmer", "customer", "farmer", "admin"})
\* Structured input payloads: with and without the key "role".
Payloads == {[username |-> "alice"]} \cup {[username |-> "alice", role |-> r] : r \in RoleInputs}
\* Keyword arguments of Order(...): with and without quantity_ordered.
OrderKwargs == {[order_status |-> "new"]}
               \cup {[order_status |-> "new", quantity_ordered |-> q] : q \in QtyInputs}

\* validate_email accepting every non-empty value.
validate_email_nonEmpty(email) ==
    IF Falsy(email) THEN Raise ELSE Return(email)

validate_email(email) ==
    IF Falsy(email) \/ ~Contains(Val(email), "@") THEN Raise ELSE Return(email)

\* validate_schema with data.get("role") in place of the membership test.
validate_schema_roleRequired(data) ==
    IF "role" \notin DOMAIN data \/ data.role \notin {Some("Farmer"), Some("customer")}
        THEN Raise
        ELSE Return(NULL)

validate_schema(data) ==
    IF "role" \in DOMAIN data /\ data.role \notin {Some("Farmer"), Some("customer")}
        THEN Raise
        ELSE Return(NULL)

\* validate_rating with the upper comparison off by one.
validate_rating_offByOne(rating) ==
    IF rating = NULL THEN Raise
    ELSE IF Val(rating) < 1 \/ Val(rating) >= 5 THEN Raise
    ELSE Return(rating)

\* None < 1 is a TypeError.
validate_rating(rating) ==
    IF rating = NULL THEN Raise
    ELSE IF Val(rating) < 1 \/ Val(rating) > 5 THEN Raise
    ELSE Return(rating)

\* validate_quantity_ordered with < in place of <=.
validate_quantity_ordered_strict(quantity_ordered) ==
    IF quantity_ordered = NULL THEN Raise
    ELSE IF Val(quantity_ordered) < 0 THEN Raise
    ELSE Return(quantity_ordered)

validate_quantity_ordered(quantity_ordered) ==
    IF quantity_ordered = NULL THEN Raise
    ELSE IF Val(quantity_ordered) <= 0 THEN Raise
    ELSE Return(quantity_ordered)

validate_payment_amount(payment_amount) ==
    IF payment_amount = NULL THEN Raise
    ELSE IF Val(payment_amount) < 0 THEN Raise
    ELSE Return(payment_amount)

\* validate_message_text with "is None" in place of "not".
validate_message_text_noneOnly(message_text) ==
    IF message_text = NULL THEN Raise ELSE Return(message_text)

validate_message_text(message_text) ==
    IF Falsy(message_text) THEN Raise ELSE Return(message_text)

\* user.email = email
SetEmail(email) ==
    LET r == validate_email(email) IN
    /\ uEmail' = IF r.raised THEN uEmail ELSE r.value
    /\ lastE' = [op |-> "set_email", arg |-> email, raised |-> r.raised, value |-> NULL]
    /\ UNCHANGED <<uRole, uHash, rRating, order, pAmount, mText, build, written, writes>>
    /\ UNCHANGED storeVars

\* user.role = role: the column has no validator.
SetRole(role) ==
    /\ uRole' = role
    /\ lastE' = [op |-> "set_role", arg |-> role, raised |-> FALSE, value |-> NULL]
    /\ UNCHANGED <<uEmail, uHash, rRating, order, pAmount, mText, build, written, writes>>
    /\ UNCHANGED storeVars

\* user.validate_schema(data)
ValidateSchema(data) ==
    LET r == validate_schema(data) IN
    /\ lastE' = [op |-> "validate_schema", arg |-> data, raised |-> r.raised,
                 value |-> r.value]
    /\ UNCHANGED <<uEmail, uRole, uHash, rRating, order, pAmount, mText, build, written,
                   writes>>
    /\ UNCHANGED storeVars

\* review.rating = rating
SetRating(rating) ==
    LET r == validate_rating(rating) IN
    /\ rRating' = IF r.raised THEN rRating ELSE r.value
    /\ lastE' = [op |-> "set_rating", arg |-> rating, raised |-> r.raised, value |-> NULL]
    /\ UNCHANGED <<uEmail, uRole, uHash, order, pAmount, mText, build, written, writes>>
    /\ UNCHANGED storeVars

\* order = Order(**kwargs): the constructor assigns each keyword, so a validator
\* that raises leaves no object.
NewOrder(kwargs) ==
    LET r == IF "quantity_ordered" \in DOMAIN kwargs
                THEN validate_quantity_ordered(kwargs.quantity_ordered)
                ELSE Return(NULL)
    IN
    /\ order' = IF r.raised THEN order
                ELSE Some([quantity_ordered |-> r.value,
                           order_status |-> Some(kwargs.order_status)])
    /\ lastE' = [op |-> "new_order", arg |-> kwargs, raised |-> r.raised, value |-> NULL]
    /\ UNCHANGED <<uEmail, uRole, uHash, rRating, pAmount, mText, build, written, writes>>
    /\ UNCHANGED storeVars

\* order.quantity_ordered = quantity_ordered
SetQuantity(quantity_ordered) ==
    LET r == validate_quantity_ordered(quantity_ordered) IN
    /\ order # NULL
    /\ order' = IF r.raised THEN order
                ELSE Some([Val(order) EXCEPT !.quantity_ordered = r.value])
    /\ lastE' = [op |-> "set_quantity", arg |-> quantity_ordered, raised |-> r.raised,
                 value |-> NULL]
    /\ UNCHANGED <<uEmail, uRole, uHash, rRating, pAmount, mText, build, written, writes>>
    /\ UNCHANGED storeVars

\* payment.payment_amount = payment_amount
SetPaymentAmount(payment_amount) ==
    LET r == validate_payment_amount(payment_amount) IN
    /\ pAmount' = IF r.raised THEN pAmount ELSE r.value
    /\ lastE' = [op |-> "set_payment_amount", arg |-> payment_amount, raised |-> r.raised,
                 value |-> NULL]
    /\ UNCHANGED <<uEmail, uRole, uHash, rRating, order, mText, build, written, writes>>
    /\ UNCHANGED storeVars

\* message.message_text = message_text
SetMessageText(message_text) ==
    LET r == validate_message_text(message_text) IN
    /\ mText' = IF r.raised THEN mText ELSE r.value
    /\ lastE' = [op |-> "set_message_text", arg |-> message_text, raised |-> r.raised,
                 value |-> NULL]
    /\ UNCHANGED <<uEmail, uRole, uHash, rRating, order, pAmount, build, written, writes>>
    /\ UNCHANGED storeVars

\* ---------------------------------------------------------------- password
\* A plaintext is a sequence of code points: "a" (one byte in UTF-8) and
\* U+00E9 (two bytes).
CodePoints == {97, 233}
\* bcrypt reads at most 72 bytes of its input.
BcryptMaxBytes == 72
Builds == {"truncate", "reject", "prehash"}

Utf8(c) == IF c < 128 THEN <<c>> ELSE <<192 + (c \div 64), 128 + (c % 64)>>

RECURSIVE Encode(_)
\* password.encode("utf-8")
Encode(str) == IF str = <<>> THEN <<>> ELSE Utf8(Head(str)) \o Encode(Tail(str))

Pad(n) == [i \in 1..n |-> 97]
PwStrings == UNION {[1..k -> CodePoints] : k \in 0..MaxPwLen}
\* Short plaintexts, and plaintexts that reach or pass 72 bytes.
Plaintexts == {Pad(n) \o t : n \in {0, BcryptMaxBytes - 1, BcryptMaxBytes}, t \in PwStrings}
PasswordInputs == Opt(Plaintexts)
\* The salts bcrypt draws.
Salts == {"salt1", "salt2"}

\* What bcrypt hashes of its input. The digest itself is taken to be free of
\* collisions: two inputs give the same hash under one salt only when bcrypt
\* is given the same bytes.
\*   "truncate": bcrypt before 5.0 ignores every byte after the 72nd;
\*   "reject":   bcrypt 5.0 and later raise ValueError on more than 72 bytes;
\*   "prehash":  Flask-Bcrypt with BCRYPT_HANDLE_LONG_PASSWORDS hashes the
\*               input with SHA-256 first.
BcryptKey(bytes) ==
    CASE build = "prehash" -> Return([pre |-> TRUE, bytes |-> bytes])
      [] build = "reject" ->
            IF Len(bytes) > BcryptMaxBytes THEN Raise
            ELSE Return([pre |-> FALSE, bytes |-> bytes])
      [] build = "truncate" ->
            Return([pre |-> FALSE,
                    bytes |-> SubSeq(bytes, 1, IF Len(bytes) > BcryptMaxBytes
                                                  THEN BcryptMaxBytes ELSE Len(bytes))])

\* bcrypt.generate_password_hash(password): an empty password is refused.
generate_password_hash(password, salt) ==
    IF password = <<>> THEN Raise
    ELSE LET k == BcryptKey(password) IN
         IF k.raised THEN Raise ELSE Return([salt |-> salt, key |-> k.value])

\* bcrypt.check_password_hash(pw_hash, password): hashes password with the
\* salt of pw_hash and compares; a pw_hash of None is a TypeError.
check_password_hash(pw_hash, password) ==
    IF pw_hash = NULL THEN Raise
    ELSE LET k == BcryptKey(password) IN
         IF k.raised THEN Raise ELSE Return(k.value = Val(pw_hash).key)

\* The getter returning the stored hash once there is one.
password_hash_get_stored(hash) ==
    IF hash = NULL THEN Raise ELSE Return(hash)

\* The getter of password_hash.
password_hash_get(hash) == Raise

\* user.password_hash = password
SetPassword(password, salt) ==
    LET r == IF password = NULL THEN Raise
             ELSE generate_password_hash(Encode(Val(password)), salt)
    IN
    /\ uHash' = IF r.raised THEN uHash ELSE Some(r.value)
    /\ written' = IF r.raised THEN written ELSE password
    /\ writes' = IF r.raised THEN writes
                 ELSE IF writes = "none" THEN "one" ELSE "several"
    /\ lastE' = [op |-> "set_password", arg |-> password, raised |-> r.raised,
                 value |-> NULL]
    /\ UNCHANGED <<uEmail, uRole, rRating, order, pAmount, mText, build>>
    /\ UNCHANGED storeVars

\* user.authenticate(password)
Authenticate(password) ==
    LET r == IF password = NULL THEN Raise
             ELSE check_password_hash(uHash, Encode(Val(password)))
    IN
    /\ lastE' = [op |-> "authenticate", arg |-> password, raised |-> r.raised,
                 value |-> IF r.raised THEN NULL ELSE Some(r.value)]
    /\ UNCHANGED <<uEmail, uRole, uHash, rRating, order, pAmount, mText, build, written,
                   writes>>
    /\ UNCHANGED storeVars

\* user.password_hash
ReadPassword ==
    LET r == password_hash_get(uHash) IN
    /\ lastE' = [op |-> "read_password", arg |-> NULL, raised |-> r.raised,
                 value |-> r.value]
    /\ UNCHANGED <<uEmail, uRole, uHash, rRating, order, pAmount, mText, build, written,
                   writes>>
    /\ UNCHANGED storeVars

\* ------------------------------------------------------------------ specs
InitObjects ==
    /\ uEmail = NULL
    /\ uRole = NULL
    /\ uHash = NULL
    /\ rRating = NULL
    /\ order = NULL
    /\ pAmount = NULL
    /\ mText = NULL
    /\ lastE = [op |-> "none", arg |-> NULL, raised |-> FALSE, value |-> NULL]
    /\ written = NULL
    /\ writes = "none"

InitStore ==
    /\ tables = {}
    /\ rev = "base"
    /\ mpc = 0
    /\ created = <<>>
    /\ dropped = <<>>
    /\ users = {}
    /\ farmers = {}
    /\ messages = {}
    /\ orders = {}
    /\ reviews = {}
    /\ lastS = [op |-> "none", args |-> <<>>, result |-> "ok"]

Init == InitStore /\ InitObjects /\ build = "truncate"

\* The bcrypt behind config.bcrypt is any of the builds.
InitPassword == InitStore /\ InitObjects /\ build \in Builds

\* Schema and uniqueness: the migration and the creates of User and Farmer.
NextSchema ==
    \/ UpgradeStep
    \/ DowngradeStep
    \/ \E un \in Opt(Usernames), em \in Opt(Emails) : CreateUser(un, em)
    \/ \E fn \in Opt(FarmNames), uid \in UserIdInputs : CreateFarmer(fn, uid)

SpecSchema == Init /\ [][NextSchema]_vars

\* Deletion of a User: rows of every table that references user.id.
NextCascade ==
    \/ UpgradeStep
    \/ CreateUser(NULL, NULL)
    \/ \E uid \in UserIdInputs : CreateFarmer(NULL, uid)
    \/ \E s \in UserIdInputs, r \in UserIdInputs : CreateMessage(s, r)
    \/ \E cid \in UserIdInputs : CreateOrderRow(cid)
    \/ \E cid \in UserIdInputs : CreateReviewRow(cid)
    \/ \E uid \in 1..MaxUsers : DeleteUser(uid)

SpecCascade == Init /\ [][NextCascade]_vars

\* Field assignment on the entity objects.
NextFields ==
    \/ \E email \in EmailInputs : SetEmail(email)
    \/ \E rating \in IntInputs : SetRating(rating)
    \/ \E kwargs \in OrderKwargs : NewOrder(kwargs)
    \/ \E q \in QtyInputs : SetQuantity(q)
    \/ \E p \in QtyInputs : SetPaymentAmount(p)
    \/ \E t \in TextInputs : SetMessageText(t)

SpecFields == Init /\ [][NextFields]_vars

\* The User object: email, role and structured-payload validation.
NextUser ==
    \/ \E email \in EmailInputs : SetEmail(email)
    \/ \E role \in RoleInputs : SetRole(role)
    \/ \E data \in Payloads : ValidateSchema(data)

SpecUser == Init /\ [][NextUser]_vars

\* The User object: the password property and authenticate.
NextPassword ==
    \/ \E password \in PasswordInputs, salt \in Salts : SetPassword(password, salt)
    \/ \E password \in PasswordInputs : Authenticate(password)
    \/ ReadPassword

SpecPassword == InitPassword /\ [][NextPassword]_vars

\* ======================================================================
\* Claims
\* ======================================================================

\* ---- C1 ----
\* No two stored Users have the same (non-NULL) username or the same
\* (non-NULL) email, no two stored Farmers have the same (non-NULL) farm_name
\* or are linked to the same User.
C1_Unique ==
    /\ \A u1 \in users, u2 \in users :
          u1 # u2 =>
            /\ u1.id # u2.id
            /\ (u1.username # NULL => u1.username # u2.username)
            /\ (u1.email # NULL => u1.email # u2.email)
    /\ \A f1 \in farmers, f2 \in farmers :
          f1 # f2 =>
            /\ f1.id # f2.id
            /\ (f1.farm_name # NULL => f1.farm_name # f2.farm_name)
            /\ (f1.user_id # NULL => f1.user_id # f2.user_id)

\* A create of a User that repeats a stored username or email ends with an
\* integrity error, and a create that ends with one adds no row.
C1_UserCreateStep ==
    lastS'.op = "create_user" =>
        LET un == lastS'.args[1]
            em == lastS'.args[2]
            repeats == \E u \in users : \/ (un # NULL /\ u.username = un)
                                        \/ (em # NULL /\ u.email = em)
        IN  /\ repeats => lastS'.result = "IntegrityError"
            /\ lastS'.result = "IntegrityError" => users' = users /\ farmers' = farmers
            /\ lastS'.result = "ok" =>
                  \E u \in users' \ users :
                      /\ users' = users \cup {u}
                      /\ u.username = un /\ u.email = em

\* The same for a create of a Farmer that repeats a farm_name or a linked User.
C1_FarmerCreateStep ==
    lastS'.op = "create_farmer" =>
        LET fn == lastS'.args[1]
            uid == lastS'.args[2]
            repeats == \E f \in farmers : \/ (fn # NULL /\ f.farm_name = fn)
                                          \/ (uid # NULL /\ f.user_id = uid)
        IN  /\ repeats => lastS'.result = "IntegrityError"
            /\ lastS'.result = "IntegrityError" => users' = users /\ farmers' = farmers
            /\ lastS'.result = "ok" =>
                  \E f \in farmers' \ farmers :
                      /\ farmers' = farmers \cup {f}
                      /\ f.farm_name = fn /\ f.user_id = uid

\* C1: after any sequence of creates of Users and Farmers the four uniqueness
\* constraints hold, and a create that would break one fails with an integrity
\* error and adds no row.
C1_UniquenessKept ==
    [](C1_Unique) /\ [][C1_UserCreateStep /\ C1_FarmerCreateStep]_vars

\* Two Users and a Farmer linked to one of them are stored, and the last
\* create, of a Farmer with another farm_name for the User that has one, was
\* rejected.
C1_Witness ==
    /\ Cardinality(users) = 2
    /\ Cardinality(farmers) = 1
    /\ \A f \in farmers : f.user_id # NULL /\ f.farm_name # NULL
    /\ \A u \in users : u.username # NULL /\ u.email # NULL
    /\ lastS.op = "create_farmer"
    /\ lastS.result = "IntegrityError"
    /\ lastS.args[2] # NULL
    /\ \E f \in farmers : f.user_id = lastS.args[2] /\ f.farm_name # lastS.args[1]

\* ---- C2 ----
\* C2: once a password p has been written, authenticate(p) returns true and
\* authenticate(q) returns false for every plaintext q other than the last one
\* written.
C2_OnlyLastWrittenAuthenticates ==
    (lastE.op = "authenticate" /\ lastE.arg # NULL /\ written # NULL) =>
        /\ ~lastE.raised
        /\ lastE.value = Some(lastE.arg = written)

\* ---- C3 ----
\* A read of password_hash raises and returns nothing.
C3_ReadRaises ==
    lastE.op = "read_password" => lastE.raised /\ lastE.value = NULL

\* A read of password_hash leaves the stored hash as it was.
C3_ReadStep ==
    lastE'.op = "read_password" => uHash' = uHash

\* C3: reading the password property raises in every state (no write, one
\* write, several writes), returns neither plaintext nor hash, and does not
\* change the stored hash.
C3_PasswordUnreadable ==
    [](C3_ReadRaises) /\ [][C3_ReadStep]_vars

\* The property was read after several writes.
C3_Witness ==
    /\ lastE.op = "read_password"
    /\ lastE.raised
    /\ writes = "several"
    /\ uHash # NULL

\* ---- C4 ----
\* Every stored ChatMessage has a stored sender and a stored receiver.
C4_NoDanglingMessage ==
    \A m \in messages : m.sender_id \in Ids(users) /\ m.receiver_id \in Ids(users)

\* A step that deletes a User removes exactly that User and the ChatMessages
\* sent or received by it; every Farmer, Order and Reviews row is still stored.
C4_DeleteStep ==
    (rev' = "head" /\ Ids(users') # Ids(users) /\ Ids(users') \subseteq Ids(users)) =>
        \E uid \in Ids(users) :
            /\ users' = {u \in users : u.id # uid}
            /\ messages' = {m \in messages : m.sender_id # uid /\ m.receiver_id # uid}
            /\ Ids(farmers') = Ids(farmers)
            /\ Ids(orders') = Ids(orders)
            /\ Ids(reviews') = Ids(reviews)
            /\ \A f \in farmers : f.user_id # Some(uid) => f \in farmers'
            /\ \A o \in orders : o.customer_id # Some(uid) => o \in orders'
            /\ \A r \in reviews : r.customer_id # Some(uid) => r \in reviews'

\* C4: deleting a User deletes the ChatMessages it sent or received, so that no
\* stored ChatMessage references a deleted User, and deletes no Farmer, Order
\* or Reviews row.
C4_CascadeMessagesOnly ==
    [](C4_NoDanglingMessage) /\ [][C4_DeleteStep]_vars

\* A User was just deleted together with its messages (at least one) while
\* another User stays, and the rows that referenced it (at least two, of
\* farmer, order or reviews) are still stored.
C4_Witness ==
    /\ lastS.op = "delete_user"
    /\ lastS.args[2] >= 1
    /\ lastS.args[3] >= 2
    /\ lastS.args[1] \notin Ids(users)
    /\ users # {}
    /\ messages = {}
    /\ Cardinality(farmers) + Cardinality(orders) + Cardinality(reviews) >= 2

\* ---- C5 ----
\* C5: every table that exists has all the tables its foreign keys reference
\* (while upgrade() creates and while downgrade() drops); upgrade() ends with
\* all nine tables; downgrade() drops in exactly the reverse of the order of
\* creation and ends with no table.
C5_DependencyOrder ==
    /\ \A t \in tables : ForeignKeys(t) \subseteq tables
    /\ Len(dropped) <= Len(created)
    /\ \A i \in 1..Len(dropped) : dropped[i] = created[Len(created) + 1 - i]
    /\ (rev = "head" /\ mpc = 0) => Cardinality(tables) = 9 /\ Len(created) = 9
    /\ (rev = "base" /\ mpc = 0) => tables = {} /\ Len(dropped) = Len(created)

\* upgrade() and then downgrade() have run to their ends.
C5_Witness ==
    /\ rev = "base"
    /\ mpc = 0
    /\ Len(created) = 9
    /\ Len(dropped) = 9
    /\ tables = {}

\* ---- C6 ----
\* C6: an assignment to User.email raises when the value is None, empty or
\* without "@", and otherwise succeeds and stores the value as given.
C6_EmailAssignment ==
    lastE.op = "set_email" =>
        LET e == lastE.arg
            hasAt == e # NULL /\ \E i \in DOMAIN Val(e) : Val(e)[i] = "@"
        IN  /\ ~hasAt => lastE.raised
            /\ hasAt => ~lastE.raised /\ uEmail = e

\* "a@" was just assigned to the email of a User that has a role.
C6_Witness ==
    /\ lastE.op = "set_email"
    /\ lastE.arg = Some(<<"a", "@">>)
    /\ ~lastE.raised
    /\ uEmail = Some(<<"a", "@">>)
    /\ uRole # NULL

\* ---- C7 ----
\* C7: an assignment of r to Reviews.rating succeeds, storing r, exactly when
\* 1 <= r <= 5.
C7_RatingAssignment ==
    (lastE.op = "set_rating" /\ lastE.arg # NULL) =>
        LET r == Val(lastE.arg) IN
        /\ ~lastE.raised <=> (1 <= r /\ r <= 5)
        /\ ~lastE.raised => rRating = Some(r)

\* The rating 5 was just assigned and is stored.
C7_Witness ==
    /\ lastE.op = "set_rating"
    /\ lastE.arg = Some(5)
    /\ ~lastE.raised
    /\ rRating = Some(5)

\* ---- C8 ----
\* An assignment of q to Order.quantity_ordered, in the constructor or after
\* it, succeeds, storing q, exactly when q > 0.
C8_QuantityOutcome ==
    /\ (lastE.op = "set_quantity" /\ lastE.arg # NULL) =>
          LET q == Val(lastE.arg) IN
          /\ ~lastE.raised <=> q > 0
          /\ ~lastE.raised => order # NULL /\ Val(order).quantity_ordered = Some(q)
    /\ (lastE.op = "new_order" /\ "quantity_ordered" \in DOMAIN lastE.arg
            /\ lastE.arg.quantity_ordered # NULL) =>
          LET q == Val(lastE.arg.quantity_ordered) IN
          /\ ~lastE.raised <=> q > 0
          /\ ~lastE.raised => order # NULL /\ Val(order).quantity_ordered = Some(q)

\* An Order(...) that raises creates no Order, and an assignment that raises
\* leaves the Order as it was.
C8_RejectedStep ==
    (lastE'.op \in {"new_order", "set_quantity"} /\ lastE'.raised) => order' = order

\* C8: quantity_ordered = q is accepted exactly when q > 0, and Order(...)
\* with quantity_ordered = 0 fails and creates no Order.
C8_QuantityAssignment ==
    [](C8_QuantityOutcome) /\ [][C8_RejectedStep]_vars

\* Order(quantity_ordered=0) was just called, raised, and there is no Order.
C8_Witness ==
    /\ lastE.op = "new_order"
    /\ "quantity_ordered" \in DOMAIN lastE.arg
    /\ lastE.arg.quantity_ordered = Some(0)
    /\ lastE.raised
    /\ order = NULL

\* ---- C9 ----
\* C9: validate_schema raises exactly on a payload that has a role other than
\* "Farmer" and "customer" (a payload without role passes), and an assignment
\* to User.role never raises and stores whatever it is given.
C9_RoleTwoPaths ==
    /\ lastE.op = "validate_schema" =>
          (lastE.raised <=>
              /\ "role" \in DOMAIN lastE.arg
              /\ lastE.arg.role # Some("Farmer")
              /\ lastE.arg.role # Some("customer"))
    /\ lastE.op = "set_role" => ~lastE.raised /\ uRole = lastE.arg

\* The User's role is "admin", by assignment, and a payload with that role was
\* just rejected.
C9_Witness ==
    /\ uRole = Some("admin")
    /\ lastE.op = "validate_schema"
    /\ "role" \in DOMAIN lastE.arg
    /\ lastE.arg.role = Some("admin")
    /\ lastE.raised

\* ---- C10 ----
\* Every guarded field is NULL or a value its validator accepts.
C10_GuardedValid ==
    /\ pAmount # NULL => Val(pAmount) >= 0
    /\ mText # NULL => Val(mText) # <<>>
    /\ (order # NULL /\ Val(order).quantity_ordered # NULL) =>
          Val(Val(order).quantity_ordered) > 0
    /\ rRating # NULL => Val(rRating) >= 1 /\ Val(rRating) <= 5
    /\ uEmail # NULL => \E i \in DOMAIN Val(uEmail) : Val(uEmail)[i] = "@"

\* An assignment that raises changes no field of any entity.
C10_RejectedStep ==
    lastE'.raised => UNCHANGED <<uEmail, uRole, uHash, rRating, order, pAmount, mText>>

\* C10: after any sequence of accepted and rejected assignments every guarded
\* field is NULL or valid, and a rejected assignment leaves every field as it
\* was.
C10_GuardsHold ==
    [](C10_GuardedValid) /\ [][C10_RejectedStep]_vars

\* Every guarded field holds a value and the last assignment was rejected.
C10_Witness ==
    /\ lastE.raised
    /\ pAmount # NULL
    /\ mText # NULL
    /\ order # NULL
    /\ Val(order).quantity_ordered # NULL
    /\ rRating # NULL
    /\ uEmail # NULL

====
